---------------------------- MODULE Spec2Model ----------------------------
(***************************************************************************)
(* Model of the Mental Well-being Agent (src/app.py): the answer mapping,  *)
(* the 26-value AI feature vector, the hybrid similarity score, the        *)
(* rule-based profile generator and the in-memory participant store with   *)
(* its submit / list / reset handlers.                                     *)
(*                                                                         *)
(* Numbers.  The program computes in float64.  Here a feature is a         *)
(* fixed-point integer in units of 1/Scale and a score (exact_ratio,       *)
(* ai_similarity, the blend, the returned similarity) is a fixed-point     *)
(* integer in units of 1/ScoreScale = 1/Scale^2.  Divisions and square     *)
(* roots round to the nearest unit.  An option value too large for a       *)
(* float64 (pydantic accepts any int) is the value HugeOption: building a  *)
(* feature vector from it raises, which compute_similarity catches.        *)
(* float64 arithmetic on the bounded integers of this model produces no    *)
(* not-a-number, so the two isnan tests of compute_similarity never fire.  *)
(***************************************************************************)
EXTENDS Integers, Sequences, FiniteSets, TLC

VARIABLES
    participants,       \* app.py:37   participant_id -> stored entry
    profile_snapshots,  \* app.py:38   list of snapshots, in submission order
    response,           \* what the last handler returned
    vec_a, vec_b,       \* arguments of a call of one of the pure functions
    pc,                 \* "ready" before that call, then the function called
    sim_ret,            \* compute_similarity(vec_a, vec_b)
    fv_ret,             \* build_ai_feature_vector(vec_a)
    prof_ret            \* generate_profile(vec_a)

vars == <<participants, profile_snapshots, response,
          vec_a, vec_b, pc, sim_ret, fv_ret, prof_ret>>

storeVars == <<participants, profile_snapshots, response>>
pureVars  == <<vec_a, vec_b, pc, sim_ret, fv_ret, prof_ret>>

---------------------------------------------------------------------------
(* Bounds of the model *)

\* option values range over -MaxNeg .. MaxOption (the form offers 0..3; the
\* server validates nothing, so negative values are inputs too)
MaxNeg == 1
MaxOption == 3
\* submits between two resets
MaxSubmits == 3

---------------------------------------------------------------------------
(* Fixed-point arithmetic *)

Scale == 1000
ScoreScale == Scale * Scale

\* an int beyond the float64 range
HugeOption == 1000000

\* a / b rounded to the nearest integer, b > 0
RoundDiv(a, b) == (2 * a + b) \div (2 * b)

\* Newton's iteration from a start r >= sqrt(x): the floor of sqrt(x)
RECURSIVE SqrtFrom(_, _)
SqrtFrom(x, r) ==
    LET next == (r + x \div r) \div 2
    IN  IF next >= r THEN r ELSE SqrtFrom(x, next)

\* sqrt(x) rounded to the nearest integer, 0 <= x < 2^31
Sqrt(x) ==
    IF x = 0 THEN 0
    ELSE LET r == SqrtFrom(x, IF x < 4000000 THEN 2000 ELSE 46340)
         IN  IF x - r * r > r THEN r + 1 ELSE r

RECURSIVE SumSeq(_, _)
SumSeq(s, i) == IF i = 0 THEN 0 ELSE s[i] + SumSeq(s, i - 1)

RECURSIVE SumOver(_, _)
SumOver(f, S) ==
    IF S = {} THEN 0
    ELSE LET k == CHOOSE k \in S : TRUE
         IN  f[k] + SumOver(f, S \ {k})

Max(S) == CHOOSE x \in S : \A y \in S : y <= x
Min(S) == CHOOSE x \in S : \A y \in S : x <= y

---------------------------------------------------------------------------
(* Answer mappings: functions from a set of question identifiers to ints *)

question_order ==
    << "ack_1", "ack_2", "ack_3", "bp_1", "bp_2", "bp_3",
       "gd_1", "gd_2", "gd_3", "rc_1", "rc_2", "rc_3" >>

Themes == << "ack", "bp", "gd", "rc" >>

\* f"{theme}_{i}" for i in [1, 2, 3]
ThemeKeys(t) ==
    CASE t = "ack" -> << "ack_1", "ack_2", "ack_3" >>
      [] t = "bp"  -> << "bp_1", "bp_2", "bp_3" >>
      [] t = "gd"  -> << "gd_1", "gd_2", "gd_3" >>
      [] t = "rc"  -> << "rc_1", "rc_2", "rc_3" >>

EmptyVector == << >>

\* answer_vector.get(qid, 0)
Get(answer_vector, qid) ==
    IF qid \in DOMAIN answer_vector THEN answer_vector[qid] ELSE 0

\* build_answer_vector: {a.question_id: a.option_value for a in answers}; a
\* later answer to the same question replaces an earlier one
RECURSIVE build_answer_vector(_)
build_answer_vector(answers) ==
    IF answers = << >> THEN EmptyVector
    ELSE LET n    == Len(answers)
             prev == build_answer_vector(SubSeq(answers, 1, n - 1))
             a    == answers[n]
         IN  [k \in DOMAIN prev \cup {a.question_id} |->
                 IF k = a.question_id THEN a.option_value ELSE prev[k]]

---------------------------------------------------------------------------
(* build_ai_feature_vector, app.py:49-112 *)

\* np.mean of a list given by its sum and its length, in units of 1/Scale
Mean(sum, n) == RoundDiv(sum * Scale, n)

\* np.std (population standard deviation) of a list of n ints with sum s and
\* sum of squares q: sqrt(q/n - (s/n)^2) = sqrt(n*q - s*s) / n
Std(s, q, n) == RoundDiv(Sqrt((n * q - s * s) * Scale * Scale), n)

\* safe_std(values): 0.0 for a list of at most one value
safe_std(s, q, n) == IF n <= 1 THEN 0 ELSE Std(s, q, n)

base_features(answer_vector) ==
    [i \in 1..12 |-> Get(answer_vector, question_order[i]) * Scale]

RECURSIVE present_values(_, _, _)
present_values(answer_vector, keys, i) ==
    IF i = 0 THEN << >>
    ELSE present_values(answer_vector, keys, i - 1)
            \o (IF keys[i] \in DOMAIN answer_vector
                THEN << answer_vector[keys[i]] >> ELSE << >>)

\* mutant: only the values of the identifiers the mapping holds
theme_values_present(answer_vector, t) ==
    present_values(answer_vector, ThemeKeys(t), 3)

\* the list [answer_vector.get(f"{t}_{i}", 0) for i in [1, 2, 3]]: always three
\* values, an absent identifier counting as 0
theme_values(answer_vector, t) ==
    [i \in 1..3 |-> Get(answer_vector, ThemeKeys(t)[i])]

theme_mean(answer_vector, t) ==
    LET v == theme_values(answer_vector, t)
    IN  IF Len(v) > 0 THEN Mean(SumSeq(v, Len(v)), Len(v)) ELSE 0

theme_std(answer_vector, t) ==
    LET v == theme_values(answer_vector, t)
        sq == [i \in 1..Len(v) |-> v[i] * v[i]]
    IN  safe_std(SumSeq(v, Len(v)), SumSeq(sq, Len(v)), Len(v))

thematic_features(answer_vector) ==
    [i \in 1..8 |->
        IF i % 2 = 1 THEN theme_mean(answer_vector, Themes[(i + 1) \div 2])
                     ELSE theme_std(answer_vector, Themes[i \div 2])]

\* the six statistics over all_values = list(answer_vector.values())
pattern_features(answer_vector) ==
    LET keys == DOMAIN answer_vector
        n    == Cardinality(keys)
        s    == SumOver(answer_vector, keys)
        q    == SumOver([k \in keys |-> answer_vector[k] * answer_vector[k]], keys)
        vals == {answer_vector[k] : k \in keys}
        hi   == Cardinality({k \in keys : answer_vector[k] >= 2})
        lo   == Cardinality({k \in keys : answer_vector[k] <= 1})
    IN  IF n = 0 THEN << 0, 0, 0, 0, 0, 0 >>
        ELSE << Mean(s, n),
                safe_std(s, q, n),
                Max(vals) * Scale,
                Min(vals) * Scale,
                RoundDiv(hi * Scale, n),
                RoundDiv(lo * Scale, n) >>

\* the 26 features before normalisation
raw_features(answer_vector) ==
    base_features(answer_vector) \o thematic_features(answer_vector)
        \o pattern_features(answer_vector)

\* np.linalg.norm, in units of 1/Scale
Norm(v) == Sqrt(SumSeq([i \in 1..Len(v) |-> v[i] * v[i]], Len(v)))

\* feature_vector / norm if norm > 1e-10, else the zero vector
normalize(v) ==
    LET norm == Norm(v)
    IN  IF norm > 0 THEN [i \in 1..Len(v) |-> RoundDiv(v[i] * Scale, norm)]
                    ELSE [i \in 1..Len(v) |-> 0]

\* np.array(..., dtype=np.float64) raises OverflowError on an int beyond the
\* float64 range
Raises(answer_vector) ==
    \E k \in DOMAIN answer_vector :
        answer_vector[k] >= HugeOption \/ answer_vector[k] <= 0 - HugeOption

build_ai_feature_vector(answer_vector) == normalize(raw_features(answer_vector))

---------------------------------------------------------------------------
(* compute_similarity, app.py:115-178 *)

shared_questions(a, b) == DOMAIN a \cap DOMAIN b

exact_matches(a, b) == Cardinality({q \in shared_questions(a, b) : a[q] = b[q]})

\* mutant: the ratio taken over the twelve questions of the form
exact_ratio_of_form(a, b) ==
    IF shared_questions(a, b) # {}
    THEN RoundDiv(exact_matches(a, b) * ScoreScale, Len(question_order))
    ELSE 0

\* mutant: the ratio taken over the questions of the first mapping
exact_ratio_of_first(a, b) ==
    IF shared_questions(a, b) # {}
    THEN RoundDiv(exact_matches(a, b) * ScoreScale, Cardinality(DOMAIN a))
    ELSE 0

\* mutant: no shared question counts as full agreement
exact_ratio_vacuous(a, b) ==
    IF shared_questions(a, b) # {}
    THEN RoundDiv(exact_matches(a, b) * ScoreScale,
                  Cardinality(shared_questions(a, b)))
    ELSE ScoreScale

\* mutant: the ratio taken over the questions of either mapping
exact_ratio_of_either(a, b) ==
    IF shared_questions(a, b) # {}
    THEN RoundDiv(exact_matches(a, b) * ScoreScale,
                  Cardinality(DOMAIN a \cup DOMAIN b))
    ELSE 0

\* exact_matches / len(shared_questions), or 0.0 without a shared question
exact_ratio(a, b) ==
    IF shared_questions(a, b) # {}
    THEN RoundDiv(exact_matches(a, b) * ScoreScale,
                  Cardinality(shared_questions(a, b)))
    ELSE 0

\* sklearn cosine_similarity of two row vectors: each is divided by its norm
\* (a zero vector is left as it is), then the dot product; in units of
\* 1/ScoreScale
cosine_similarity(x, y) ==
    LET unit(v) == LET n == Norm(v)
                   IN  IF n = 0 THEN v
                       ELSE [i \in 1..Len(v) |-> RoundDiv(v[i] * Scale, n)]
        xn == unit(x)
        yn == unit(y)
    IN  SumSeq([i \in 1..Len(x) |-> xn[i] * yn[i]], Len(x))

\* if np.isnan(ai_similarity) or ai_similarity < 0: ai_similarity = exact_ratio
guard_ai(ai, er) == IF ai < 0 THEN er ELSE ai

\* mutant: the boundary 0.9 itself takes the balanced weighting
combined_similarity_strict(er, ai) ==
    IF 10 * er > 9 * ScoreScale
    THEN RoundDiv(6 * er + 4 * ai, 10)
    ELSE RoundDiv(6 * ai + 4 * er, 10)

\* the weighted blend: exact_ratio >= 0.9 trusts the exact ratio more
combined_similarity(er, ai) ==
    IF 10 * er >= 9 * ScoreScale
    THEN RoundDiv(6 * er + 4 * ai, 10)
    ELSE RoundDiv(6 * ai + 4 * er, 10)

\* max(0.0, min(1.0, combined_similarity))
clamp(x) == Max({0, Min({ScoreScale, x})})

\* mutant: the blend of the raw cosine is returned, neither guarded against
\* a negative cosine nor clamped
compute_similarity_unguarded(a, b) ==
    IF DOMAIN a = {} \/ DOMAIN b = {} THEN 0
    ELSE IF shared_questions(a, b) # {} /\ exact_ratio(a, b) >= ScoreScale
         THEN ScoreScale
    ELSE IF Raises(a) \/ Raises(b) THEN exact_ratio(a, b)
    ELSE combined_similarity(exact_ratio(a, b),
                             cosine_similarity(build_ai_feature_vector(a),
                                               build_ai_feature_vector(b)))

compute_similarity(a, b) ==
    IF DOMAIN a = {} \/ DOMAIN b = {} THEN 0
    ELSE IF shared_questions(a, b) # {} /\ exact_ratio(a, b) >= ScoreScale
         THEN ScoreScale
    ELSE IF Raises(a) \/ Raises(b) THEN exact_ratio(a, b)
    ELSE LET er == exact_ratio(a, b)
             ai == guard_ai(cosine_similarity(build_ai_feature_vector(a),
                                              build_ai_feature_vector(b)), er)
         IN  clamp(combined_similarity(er, ai))

---------------------------------------------------------------------------
(* generate_profile, app.py:181-254 *)

max_per_question == 3
max_questions_per_dim == 3
max_score == max_per_question * max_questions_per_dim

DimensionNames ==
    << "emotional_clarity", "stress_management", "growth_mindset",
       "boundaries", "relationship_safety" >>

\* the themes whose answers are added to a dimension (app.py:198-211)
DimensionTheme(d) ==
    CASE d = "emotional_clarity"   -> "ack"
      [] d = "stress_management"   -> "bp"
      [] d = "growth_mindset"      -> "gd"
      [] d = "boundaries"          -> "bp"
      [] d = "relationship_safety" -> "rc"

ThemeKeySet(t) == {ThemeKeys(t)[i] : i \in 1..3}

\* mutant: every answer is added to every dimension
dimension_sum_any(answer_vector, d) ==
    SumOver(answer_vector, DOMAIN answer_vector)

\* the loop over answer_vector.items(): the values of the identifiers of the
\* dimension's theme that the mapping holds, added up
dimension_sum(answer_vector, d) ==
    SumOver(answer_vector, DOMAIN answer_vector \cap ThemeKeySet(DimensionTheme(d)))

\* (v / max_score) if max_score else 0.0, in units of 1/ScoreScale
normalized_score(v) ==
    IF max_score # 0 THEN RoundDiv(v * ScoreScale, max_score) ELSE 0

PositiveSentence(d) ==
    CASE d = "emotional_clarity" ->
            "You show strong emotional awareness and reflection."
      [] d = "stress_management" ->
            "You tend to recognize patterns in your stress and have some strategies to cope."
      [] d = "growth_mindset" ->
            "You seem to be growing a lot through self-reflection and change."
      [] d = "boundaries" ->
            "You are actively thinking about protecting your time, energy, and peace."
      [] d = "relationship_safety" ->
            "Safe and supportive connections seem important and present in your life."

ConcernSentence(d) ==
    CASE d = "emotional_clarity" ->
            "You may be in a phase where your inner world feels unclear or heavy."
      [] d = "stress_management" ->
            "Stress may be building up in ways that are hard to manage sustainably."
      [] d = "growth_mindset" ->
            "You might be feeling a bit stuck or unsure about your direction right now."
      [] d = "boundaries" ->
            "There may be opportunities to set gentler boundaries for yourself."
      [] d = "relationship_safety" ->
            "You may be craving deeper understanding and safety in relationships."

GenericSentence ==
    "Your responses suggest a mix of strengths and growth areas across emotions, boundaries, stress, and relationships."

\* if normalized[d] >= 0.7: positive sentence; elif normalized[d] <= 0.3:
\* concern sentence
dimension_sentences(score, d) ==
    IF 10 * score >= 7 * ScoreScale THEN << PositiveSentence(d) >>
    ELSE IF 10 * score <= 3 * ScoreScale THEN << ConcernSentence(d) >>
    ELSE << >>

\* mutant: the sentences in the order boundaries before growth_mindset
SummaryOrder_swapped ==
    << "emotional_clarity", "stress_management", "boundaries",
       "growth_mindset", "relationship_safety" >>

\* the five if/elif blocks in the order of the code (app.py:221-244)
SummaryOrder ==
    << "emotional_clarity", "stress_management", "growth_mindset",
       "boundaries", "relationship_safety" >>

RECURSIVE summary_parts(_, _)
summary_parts(normalized, i) ==
    IF i = 0 THEN << >>
    ELSE summary_parts(normalized, i - 1)
            \o dimension_sentences(normalized[SummaryOrder[i]], SummaryOrder[i])

\* the summary is the list of its sentences (the code joins them with spaces)
generate_profile(answer_vector) ==
    LET normalized ==
            [d \in {DimensionNames[i] : i \in 1..5} |->
                normalized_score(dimension_sum(answer_vector, d))]
        parts == summary_parts(normalized, 5)
    IN  [dimensions |-> normalized,
         summary    |-> IF parts = << >> THEN << GenericSentence >> ELSE parts]

---------------------------------------------------------------------------
(* Inputs of the calls *)

OptionValues == (0 - MaxNeg)..MaxOption

\* every answer mapping over a subset of keys with values in vals
Maps(keys, vals) == UNION {[S -> vals] : S \in SUBSET keys}

\* the first n canonical questions answered v, the n-th answered w
Dense(n, v, w) ==
    [k \in {question_order[i] : i \in 1..n} |->
        IF k = question_order[n] THEN w ELSE v]

\* sparse mappings: one canonical and one non-canonical identifier, any
\* option value, a value beyond the float64 range included
SparseInputs == Maps({"ack_1", "x_1"}, OptionValues \cup {HugeOption})

\* dense mappings: 5, 9, 10 or 12 questions answered alike but the last
DenseInputs ==
    {Dense(n, v, w) : n \in {5, 9, 10, 12}, v \in 2..MaxOption, w \in 0..MaxOption}

PairInputs == SparseInputs \cup DenseInputs

\* one theme's part of a mapping: nothing, its first question alone, or its
\* three questions answered alike
ThemeParts(t, vals) ==
    {EmptyVector}
        \cup {[k \in {ThemeKeys(t)[1]} |-> v] : v \in vals}
        \cup {[k \in ThemeKeySet(t) |-> v] : v \in vals}

\* mappings for the calls with one argument: any part for the first two
\* themes, a low, a middle and a high part for the other two, and a
\* non-canonical identifier or not
UnaryInputs ==
    {a @@ b @@ g @@ r @@ x :
        a \in ThemeParts("ack", OptionValues),
        b \in ThemeParts("bp", OptionValues),
        g \in ThemeParts("gd", {1, MaxOption}),
        r \in ThemeParts("rc", {1, MaxOption}),
        x \in Maps({"x_1"}, {MaxOption})}


Answer(qid, v) == [question_id |-> qid, option_value |-> v]

\* the answers of a submission: the first n canonical questions in order,
\* answered v but the n-th, answered w
DenseAnswers(n, v, w) ==
    [i \in 1..n |-> Answer(question_order[i], IF i = n THEN w ELSE v)]

\* a form that answers one question twice
TwiceAnswered == << Answer("ack_1", 3), Answer("x_1", 1), Answer("ack_1", 0) >>

ParticipantIds == {"p1", "p2", "p3"}

\* the forms each client may send: two full forms that differ in one answer
\* of ten, and the form above
AnswersSent(pid) ==
    CASE pid = "p1" -> {DenseAnswers(10, 2, 1), TwiceAnswered}
      [] pid = "p2" -> {DenseAnswers(10, 2, 2), TwiceAnswered}
      [] pid = "p3" -> {DenseAnswers(10, 2, 2), DenseAnswers(10, 2, 1)}

\* a participant_name of None
None == "None"

\* what each client sends as participant_name: nothing, a name, the empty
\* string
NameSent(pid) ==
    CASE pid = "p1" -> None
      [] pid = "p2" -> "Ann"
      [] pid = "p3" -> ""

\* ParticipantSubmission
Payloads ==
    UNION {{[participant_id |-> p, participant_name |-> NameSent(p), answers |-> l] :
                l \in AnswersSent(p)} : p \in ParticipantIds}

---------------------------------------------------------------------------
(* The store, app.py:36-38 *)

NoResponse == [kind |-> "none"]

StoreInit ==
    /\ participants = << >>
    /\ profile_snapshots = << >>
    /\ response = NoResponse

NoProfile == [dimensions |-> << >>, summary |-> << >>]

PureIdle ==
    /\ pc = "ready"
    /\ sim_ret = 0
    /\ fv_ret = << >>
    /\ prof_ret = NoProfile

---------------------------------------------------------------------------
(* Calls of compute_similarity on a pair of answer mappings *)

InitSim ==
    /\ StoreInit
    /\ vec_a \in PairInputs
    /\ vec_b \in PairInputs
    /\ PureIdle

CallComputeSimilarity ==
    /\ pc = "ready"
    /\ pc' = "similarity"
    /\ sim_ret' = compute_similarity(vec_a, vec_b)
    /\ UNCHANGED <<vec_a, vec_b, fv_ret, prof_ret>>
    /\ UNCHANGED storeVars

NextSim == CallComputeSimilarity

SpecSim == InitSim /\ [][NextSim]_vars

---------------------------------------------------------------------------
(* Calls of build_ai_feature_vector and generate_profile on one mapping *)

InitUnary ==
    /\ StoreInit
    /\ vec_a \in UnaryInputs
    /\ vec_b = EmptyVector
    /\ PureIdle

CallBuildFeatureVector ==
    /\ pc = "ready"
    /\ pc' = "features"
    /\ fv_ret' = build_ai_feature_vector(vec_a)
    /\ UNCHANGED <<vec_a, vec_b, sim_ret, prof_ret>>
    /\ UNCHANGED storeVars

CallGenerateProfile ==
    /\ pc = "ready"
    /\ pc' = "profile"
    /\ prof_ret' = generate_profile(vec_a)
    /\ UNCHANGED <<vec_a, vec_b, sim_ret, fv_ret>>
    /\ UNCHANGED storeVars

NextUnary == CallBuildFeatureVector \/ CallGenerateProfile

SpecUnary == InitUnary /\ [][NextUnary]_vars

---------------------------------------------------------------------------
(* The handlers, app.py:257-400.  participants is a dict: here the list of  *)
(* its entries in insertion order, one per participant_id.  The timestamp  *)
(* of an entry or snapshot is the wall clock's and is left out.            *)

\* payload.participant_name or payload.participant_id
display_name(payload) ==
    IF payload.participant_name = None \/ payload.participant_name = ""
    THEN payload.participant_id
    ELSE payload.participant_name

HasParticipant(store, pid) == \E i \in 1..Len(store) : store[i].id = pid

\* mutant: every submit adds an entry, a known participant_id included
dict_append(store, entry) == Append(store, entry)

\* participants[pid] = entry: a new key goes last, an existing one keeps its
\* place
dict_set(store, entry) ==
    IF HasParticipant(store, entry.id)
    THEN [i \in 1..Len(store) |->
            IF store[i].id = entry.id THEN entry ELSE store[i]]
    ELSE Append(store, entry)

\* round(x, ndigits) of a value in units of 1/(unit * 10^ndigits): to the
\* nearest, a tie to the even neighbour
round_half_even(x, unit) ==
    LET q == x \div unit
        r == x % unit
    IN  IF 2 * r > unit \/ (2 * r = unit /\ q % 2 = 1) THEN q + 1 ELSE q

\* round(score, 4), in units of 1/10000
round4(score) == round_half_even(score, ScoreScale \div 10000)

\* round(score * 100, 2), in units of 1/100 of a percent
round_percentage(score) == round_half_even(score, ScoreScale \div 10000)

\* mutant: a threshold of 0.95
is_very_similar(score) == 100 * score >= 95 * ScoreScale

\* score >= 0.9
is_highly_similar(score) == 10 * score >= 9 * ScoreScale

\* the loop over participants.items(): one entry per other participant whose
\* score is >= 0.9, in the order of the dict
RECURSIVE similar_to(_, _, _, _)
similar_to(store, i, pid, answer_vector) ==
    IF i = 0 THEN << >>
    ELSE LET rest  == similar_to(store, i - 1, pid, answer_vector)
             other == store[i]
             score == compute_similarity(answer_vector, other.answers)
         IN  IF other.id = pid THEN rest
             ELSE IF is_highly_similar(score)
             THEN Append(rest, [participant_id        |-> other.id,
                                participant_name      |-> other.name,
                                similarity            |-> round4(score),
                                similarity_percentage |-> round_percentage(score)])
             ELSE rest

\* one element put into a list sorted by similarity, highest first, behind
\* the elements of the same similarity
insert_sorted(sorted, x) ==
    LET before == {i \in 1..Len(sorted) : sorted[i].similarity >= x.similarity}
        k      == Cardinality(before)
    IN  SubSeq(sorted, 1, k) \o << x >> \o SubSeq(sorted, k + 1, Len(sorted))

\* mutant: the list is returned in the order of the dict
unsorted(l) == l

\* similarities.sort(key=lambda x: x["similarity"], reverse=True): stable
RECURSIVE sort_by_similarity(_)
sort_by_similarity(l) ==
    IF l = << >> THEN << >>
    ELSE insert_sorted(sort_by_similarity(SubSeq(l, 1, Len(l) - 1)), l[Len(l)])

submit_responses(payload) ==
    LET answer_vector == build_answer_vector(payload.answers)
        profile       == generate_profile(answer_vector)
        snapshot      == [participant_id    |-> payload.participant_id,
                          participant_name  |-> display_name(payload),
                          answers           |-> answer_vector,
                          profile           |-> profile,
                          ai_feature_vector |-> build_ai_feature_vector(answer_vector)]
        entry         == [id      |-> payload.participant_id,
                          name    |-> display_name(payload),
                          answers |-> answer_vector,
                          profile |-> profile]
        stored        == dict_set(participants, entry)
        similarities  == sort_by_similarity(
                            similar_to(stored, Len(stored),
                                       payload.participant_id, answer_vector))
    IN  /\ participants' = stored
        /\ profile_snapshots' = Append(profile_snapshots, snapshot)
        /\ response' = [kind                        |-> "submit",
                        participant_id              |-> payload.participant_id,
                        participant_name            |-> display_name(payload),
                        profile                     |-> profile,
                        profile_snapshot            |-> snapshot,
                        highly_similar_participants |-> similarities,
                        has_similar_matches         |-> Len(similarities) > 0]

Submit ==
    /\ Len(profile_snapshots) < MaxSubmits
    /\ \E payload \in Payloads : submit_responses(payload)
    /\ UNCHANGED pureVars

\* the pairs i < j of stored participants whose score is >= 0.9, in the
\* order of the two loops
highly_similar_pairs(store) ==
    LET pair(i, j) ==
            LET score == compute_similarity(store[i].answers, store[j].answers)
            IN  IF is_highly_similar(score)
                THEN << [participant_a         |-> store[i].id,
                         participant_a_name    |-> store[i].name,
                         participant_b         |-> store[j].id,
                         participant_b_name    |-> store[j].name,
                         similarity            |-> round4(score),
                         similarity_percentage |-> round_percentage(score)] >>
                ELSE << >>
        n == Len(store)
        RECURSIVE from(_, _)
        from(i, j) ==
            IF i > n THEN << >>
            ELSE IF j > n THEN from(i + 1, i + 2)
            ELSE pair(i, j) \o from(i, j + 1)
    IN  from(1, 2)

list_participants ==
    /\ response' = [kind                    |-> "participants",
                    count                   |-> Len(participants),
                    participants            |-> participants,
                    profile_snapshots_count |-> Len(profile_snapshots),
                    highly_similar_pairs    |-> highly_similar_pairs(participants)]
    /\ UNCHANGED <<participants, profile_snapshots>>
    /\ UNCHANGED pureVars

reset ==
    /\ participants' = << >>
    /\ profile_snapshots' = << >>
    /\ response' = [kind |-> "reset", status |-> "ok"]
    /\ UNCHANGED pureVars

Init ==
    /\ StoreInit
    /\ vec_a = EmptyVector
    /\ vec_b = EmptyVector
    /\ PureIdle

Next == Submit \/ list_participants \/ reset

Spec == Init /\ [][Next]_vars

---------------------------------------------------------------------------
(* Properties of compute_similarity, checked under SpecSim *)

Called == pc = "similarity"

\* the cosine of the two feature vectors, as compute_similarity reads it
RawCosine == cosine_similarity(build_ai_feature_vector(vec_a),
                               build_ai_feature_vector(vec_b))

SharedKeys == {q \in DOMAIN vec_a : q \in DOMAIN vec_b}
MatchingKeys == {q \in SharedKeys : vec_a[q] = vec_b[q]}
Encodable ==
    /\ \A q \in DOMAIN vec_a : vec_a[q] < HugeOption
    /\ \A q \in DOMAIN vec_b : vec_b[q] < HugeOption

\* C1 as stated: compute_similarity(A, A) is exactly 1.0 for every answer
\* mapping A, the empty mapping included.
C1_SelfSimilarityAlways ==
    (Called /\ vec_a = vec_b) => sim_ret = ScoreScale

\* C1 as amended: compute_similarity(A, A) is exactly 1.0 for every non-empty
\* answer mapping A, and 0.0 for the empty mapping.
C1_SelfSimilarity ==
    (Called /\ vec_a = vec_b) =>
        sim_ret = (IF DOMAIN vec_a = {} THEN 0 ELSE ScoreScale)

C1_Witness ==
    /\ Called
    /\ vec_a = vec_b
    /\ Cardinality(DOMAIN vec_a) = 2
    /\ sim_ret = ScoreScale

\* C2: whatever the integer option values of A and B, negative and
\* out-of-range ones included, compute_similarity returns a value in [0,1].
C2_ResultInUnitInterval ==
    Called => (0 <= sim_ret /\ sim_ret <= ScoreScale)

\* a pair with a negative value whose feature vectors have a negative cosine
C2_Witness ==
    /\ Called
    /\ \E q \in DOMAIN vec_a : vec_a[q] < 0
    /\ SharedKeys # {}
    /\ MatchingKeys # SharedKeys
    /\ Encodable
    /\ RawCosine < 0

\* C3: compute_similarity(A, B) = compute_similarity(B, A) for all A and B,
\* on every return path.
C3_Symmetric ==
    Called => sim_ret = compute_similarity(vec_b, vec_a)

\* two mappings over different sets of questions, scored by the blend
C3_Witness ==
    /\ Called
    /\ DOMAIN vec_a # DOMAIN vec_b
    /\ Cardinality(DOMAIN vec_a) < Cardinality(DOMAIN vec_b)
    /\ SharedKeys # {}
    /\ 0 < sim_ret
    /\ sim_ret < ScoreScale

\* C5: for A and B that share no question identifier the exact ratio is 0,
\* the result is never 1.0, and it is the clamped blend 0.6 * ai_similarity
\* (a negative cosine replaced by the exact ratio, 0) + 0.4 * 0; when the
\* feature vectors cannot be built the result is the exact ratio, 0.
C5_NoSharedQuestion ==
    (Called /\ SharedKeys = {}) =>
        /\ exact_ratio(vec_a, vec_b) = 0
        /\ sim_ret # ScoreScale
        /\ sim_ret =
            (IF ~ Encodable THEN 0
             ELSE LET ai   == IF RawCosine < 0 THEN 0 ELSE RawCosine
                      c    == (6 * ai + 5) \div 10
                  IN  IF c < 0 THEN 0 ELSE IF c > ScoreScale THEN ScoreScale ELSE c)

\* two non-empty mappings without a common question and a positive score
C5_Witness ==
    /\ Called
    /\ DOMAIN vec_a # {}
    /\ DOMAIN vec_b # {}
    /\ SharedKeys = {}
    /\ sim_ret > 0

\* C6: without short-circuit and without fallback the result is the clamp to
\* [0,1] of 0.6 * exact_ratio + 0.4 * ai_similarity if exact_ratio >= 0.9,
\* 0.9 itself included, and of 0.6 * ai_similarity + 0.4 * exact_ratio if
\* exact_ratio < 0.9, where a negative ai_similarity is first replaced by
\* exact_ratio.
C6_Blend ==
    (/\ Called
     /\ DOMAIN vec_a # {}
     /\ DOMAIN vec_b # {}
     /\ MatchingKeys # SharedKeys
     /\ Encodable) =>
        LET m  == Cardinality(MatchingKeys)
            n  == Cardinality(SharedKeys)
            er == (2 * m * ScoreScale + n) \div (2 * n)
            ai == IF RawCosine < 0 THEN er ELSE RawCosine
            c  == IF 10 * m >= 9 * n THEN (6 * er + 4 * ai + 5) \div 10
                                     ELSE (6 * ai + 4 * er + 5) \div 10
        IN  sim_ret = (IF c < 0 THEN 0 ELSE IF c > ScoreScale THEN ScoreScale ELSE c)

\* exactly nine of ten shared questions agree: the exact ratio is 0.9
C6_Witness ==
    /\ Called
    /\ Cardinality(SharedKeys) = 10
    /\ Cardinality(MatchingKeys) = 9
    /\ RawCosine # 9 * (ScoreScale \div 10)
    /\ sim_ret > 9 * (ScoreScale \div 10)

---------------------------------------------------------------------------
(* Properties of build_ai_feature_vector and generate_profile, checked      *)
(* under SpecUnary                                                          *)

\* the value the mapping holds for a question, 0 for a question it lacks
ValueOf(q) == IF q \in DOMAIN vec_a THEN vec_a[q] ELSE 0

SumOfSquares(v) == SumSeq([i \in 1..Len(v) |-> v[i] * v[i]], Len(v))

\* a vector of Euclidean norm 1.0 within a tolerance of one percent
UnitNorm(v) ==
    /\ SumOfSquares(v) >= ((99 * Scale) \div 100) * ((99 * Scale) \div 100)
    /\ SumOfSquares(v) <= ((101 * Scale) \div 100) * ((101 * Scale) \div 100)

\* C4 as stated: build_ai_feature_vector returns the all-zero 26-vector when
\* the mapping is empty or all of its values are 0, and a vector of norm 1 for
\* every other mapping.
C4_ZeroVectorOrUnitNorm ==
    pc = "features" =>
        /\ Len(fv_ret) = 26
        /\ IF \A q \in DOMAIN vec_a : vec_a[q] = 0
           THEN \A i \in 1..26 : fv_ret[i] = 0
           ELSE UnitNorm(fv_ret)

\* C7: generate_profile returns five dimension scores: emotional_clarity is
\* the sum of the ack_* values over 9, growth_mindset that of the gd_* values,
\* relationship_safety that of the rc_* values, boundaries and
\* stress_management both that of the bp_* values; other identifiers add to
\* no dimension.
C7_DimensionScores ==
    pc = "profile" =>
        LET d        == prof_ret.dimensions
            ninth(x) == (2 * x * ScoreScale + 9) \div 18
            ack      == ValueOf("ack_1") + ValueOf("ack_2") + ValueOf("ack_3")
            bp       == ValueOf("bp_1") + ValueOf("bp_2") + ValueOf("bp_3")
            gd       == ValueOf("gd_1") + ValueOf("gd_2") + ValueOf("gd_3")
            rc       == ValueOf("rc_1") + ValueOf("rc_2") + ValueOf("rc_3")
        IN  /\ DOMAIN d = {"emotional_clarity", "stress_management",
                           "growth_mindset", "boundaries", "relationship_safety"}
            /\ d["emotional_clarity"] = ninth(ack)
            /\ d["growth_mindset"] = ninth(gd)
            /\ d["relationship_safety"] = ninth(rc)
            /\ d["boundaries"] = ninth(bp)
            /\ d["stress_management"] = ninth(bp)
            /\ d["boundaries"] = d["stress_management"]

\* the mapping {ack_1: 2}, and with it a non-canonical identifier
C7_Witness ==
    /\ pc = "profile"
    /\ DOMAIN vec_a = {"ack_1", "x_1"}
    /\ vec_a["ack_1"] = 2
    /\ vec_a["x_1"] > 0
    /\ prof_ret.dimensions["emotional_clarity"] = 222222
    /\ prof_ret.dimensions["boundaries"] = 0

\* C8: each dimension contributes to the summary exactly one positive sentence
\* if its score is >= 0.7, exactly one concern sentence if it is <= 0.3 and
\* nothing in between; the sentences come in the order emotional_clarity,
\* stress_management, growth_mindset, boundaries, relationship_safety; the
\* generic sentence is the summary iff no dimension contributed, so the
\* summary is never empty.
C8_Summary ==
    pc = "profile" =>
        LET d == prof_ret.dimensions
            said(x) ==
                IF 10 * d[x] >= 7 * ScoreScale THEN << PositiveSentence(x) >>
                ELSE IF 10 * d[x] <= 3 * ScoreScale THEN << ConcernSentence(x) >>
                ELSE << >>
            contributed ==
                said("emotional_clarity") \o said("stress_management")
                    \o said("growth_mindset") \o said("boundaries")
                    \o said("relationship_safety")
        IN  /\ Len(prof_ret.summary) >= 1
            /\ contributed # << >> => prof_ret.summary = contributed
            /\ contributed = << >> <=> prof_ret.summary = << GenericSentence >>

\* a positive sentence, two dimensions in the middle band that say nothing,
\* then concern sentences of growth_mindset before boundaries
C8_Witness ==
    /\ pc = "profile"
    /\ Len(prof_ret.summary) = 4
    /\ prof_ret.summary[1] = PositiveSentence("emotional_clarity")
    /\ prof_ret.summary[2] = ConcernSentence("stress_management")
    /\ prof_ret.summary[3] = ConcernSentence("growth_mindset")
    /\ prof_ret.summary[4] = ConcernSentence("boundaries")

\* the state in which no dimension contributes
C8_FallbackReached ==
    /\ pc = "profile"
    /\ prof_ret.summary = << GenericSentence >>

\* the questions of the i-th theme that the mapping holds, by slot
PresentSlots(ti) == {i \in 1..3 : ThemeKeys(Themes[ti])[i] \in DOMAIN vec_a}
BaseIndex(ti, i) == 3 * (ti - 1) + i
MeanIndex(ti) == 11 + 2 * ti
StdIndex(ti) == 12 + 2 * ti
Abs(x) == IF x < 0 THEN 0 - x ELSE x

\* C9 as stated: the standard-deviation feature of a theme is 0 whenever
\* fewer than 2 of its three questions are in the mapping, and the mean feature
\* of a theme is the mean of the values that are present.
C9_StdZeroBelowTwoAnswers ==
    pc = "features" =>
        \A ti \in 1..4 :
            LET present == PresentSlots(ti)
                n       == Cardinality(present)
                total   == SumOver([i \in present |-> fv_ret[BaseIndex(ti, i)]],
                                   present)
            IN  /\ n < 2 => fv_ret[StdIndex(ti)] = 0
                /\ n >= 1 => Abs(n * fv_ret[MeanIndex(ti)] - total) <= 2 * n

\* C9 as amended: a theme always has three slots, a question the mapping
\* lacks counting as 0: the standard-deviation feature is 0 exactly when the
\* three slot values are equal, and the mean feature is the sum of the three
\* slots over 3.
C9_StdOverThreeSlots ==
    pc = "features" =>
        \A ti \in 1..4 :
            LET k     == ThemeKeys(Themes[ti])
                total == fv_ret[BaseIndex(ti, 1)] + fv_ret[BaseIndex(ti, 2)]
                            + fv_ret[BaseIndex(ti, 3)]
            IN  /\ fv_ret[StdIndex(ti)] = 0 <=>
                      (ValueOf(k[1]) = ValueOf(k[2]) /\ ValueOf(k[2]) = ValueOf(k[3]))
                /\ Abs(3 * fv_ret[MeanIndex(ti)] - total) <= 6

\* a theme with exactly one answered question, answered non-zero
C9_Witness ==
    /\ pc = "features"
    /\ PresentSlots(1) = {1}
    /\ vec_a["ack_1"] # 0
    /\ fv_ret[StdIndex(1)] > 0
    /\ 3 * fv_ret[MeanIndex(1)] <= fv_ret[BaseIndex(1, 1)] + 6

---------------------------------------------------------------------------
(* Properties of the handlers, checked under Spec *)

StoredIds == {participants[i].id : i \in 1..Len(participants)}
StoredAnswers(q) ==
    (CHOOSE e \in {participants[i] : i \in 1..Len(participants)} : e.id = q).answers

\* C10: the highly_similar_participants of a submit by P holds exactly the
\* stored participants Q # P whose compute_similarity with P's new answers is
\* >= 0.9, never P, each Q once, by non-increasing reported similarity, and
\* has_similar_matches is true iff the list is not empty.
C10_HighlySimilarList ==
    response.kind = "submit" =>
        LET p       == response.participant_id
            mine    == response.profile_snapshot.answers
            l       == response.highly_similar_participants
            listed  == {l[i].participant_id : i \in 1..Len(l)}
            score(q) == compute_similarity(mine, StoredAnswers(q))
        IN  /\ listed = {q \in StoredIds \ {p} : 10 * score(q) >= 9 * ScoreScale}
            /\ p \notin listed
            /\ Cardinality(listed) = Len(l)
            /\ \A i \in 1..Len(l) : \A j \in 1..Len(l) :
                    i < j => l[i].similarity >= l[j].similarity
            /\ \A i \in 1..Len(l) :
                    Abs(100 * l[i].similarity - score(l[i].participant_id)) <= 50
            /\ response.has_similar_matches <=> Len(l) > 0

\* two matches of different similarity, the higher one stored later, a third
\* submit of the same session having been left out or replaced
C10_Witness ==
    /\ response.kind = "submit"
    /\ Len(response.highly_similar_participants) = 2
    /\ response.highly_similar_participants[1].similarity
            > response.highly_similar_participants[2].similarity
    /\ \E i \in 1..Len(participants) : \E j \in 1..Len(participants) :
            /\ i < j
            /\ participants[i].id
                    = response.highly_similar_participants[2].participant_id
            /\ participants[j].id
                    = response.highly_similar_participants[1].participant_id

\* a stored participant that is not similar enough is left out
C10_ExcludedReached ==
    /\ response.kind = "submit"
    /\ Len(response.highly_similar_participants) = 1
    /\ Len(participants) = 3

---------------------------------------------------------------------------
(* The value 1.0 of compute_similarity, checked under SpecSim *)

\* C11: compute_similarity(A, B) returns 1.0 if and only if A and B are both
\* non-empty, share at least one question identifier and agree on every
\* shared identifier, whatever identifiers only one of them holds; whenever
\* exact_ratio < 1 the blended or fallback result is strictly below 1.0.
C11_OneIffFullAgreement ==
    Called =>
        /\ (sim_ret = ScoreScale) <=>
                (/\ DOMAIN vec_a # {}
                 /\ DOMAIN vec_b # {}
                 /\ SharedKeys # {}
                 /\ MatchingKeys = SharedKeys)
        /\ exact_ratio(vec_a, vec_b) < ScoreScale => sim_ret < ScoreScale

\* the short-circuit taken by two mappings of which each holds a question
\* the other does not
C11_Witness ==
    /\ Called
    /\ SharedKeys # {}
    /\ MatchingKeys = SharedKeys
    /\ DOMAIN vec_a \ DOMAIN vec_b # {}
    /\ DOMAIN vec_b \ DOMAIN vec_a # {}
    /\ sim_ret = ScoreScale

\* a single disagreement among twelve shared questions: a blend below 1.0
C11_NearMissReached ==
    /\ Called
    /\ Cardinality(SharedKeys) = 12
    /\ Cardinality(MatchingKeys) = 11
    /\ Encodable
    /\ 10 * sim_ret > 9 * ScoreScale
    /\ sim_ret < ScoreScale

\* a disagreement on a value beyond float64: the fallback, below 1.0
C11_FallbackReached ==
    /\ Called
    /\ SharedKeys # {}
    /\ MatchingKeys # SharedKeys
    /\ ~ Encodable
    /\ sim_ret = exact_ratio(vec_a, vec_b)
    /\ sim_ret < ScoreScale

---------------------------------------------------------------------------
(* The two stores under submit, list and reset, checked under Spec *)

\* the place of the latest snapshot of a participant, 0 if there is none
LastSnapshotOf(pid) ==
    Max({0} \cup {k \in 1..Len(profile_snapshots) :
                    profile_snapshots[k].participant_id = pid})

\* a snapshot is what some submit of that participant stores
IsSubmitted(snapshot) ==
    \E payload \in Payloads :
        /\ snapshot.participant_id = payload.participant_id
        /\ snapshot.participant_name = display_name(payload)
        /\ snapshot.answers = build_answer_vector(payload.answers)
        /\ snapshot.profile = generate_profile(snapshot.answers)

\* one entry per participant_id, each the latest submit of its participant
StoresAgree ==
    /\ \A i, j \in 1..Len(participants) :
            participants[i].id = participants[j].id => i = j
    /\ {participants[i].id : i \in 1..Len(participants)} =
            {profile_snapshots[k].participant_id : k \in 1..Len(profile_snapshots)}
    /\ \A i \in 1..Len(participants) :
            LET last == profile_snapshots[LastSnapshotOf(participants[i].id)]
            IN  /\ participants[i].answers = last.answers
                /\ participants[i].profile = last.profile
                /\ participants[i].name = last.participant_name
    /\ \A k \in 1..Len(profile_snapshots) : IsSubmitted(profile_snapshots[k])
    /\ Len(profile_snapshots) >= Len(participants)
    /\ response.kind = "reset" =>
            (participants = << >> /\ profile_snapshots = << >>)

\* what one operation does to the stores: a submit appends one snapshot, the
\* one it returns, and leaves the earlier ones as they are; a listing changes
\* nothing; a reset empties both
StoresStep ==
    \/ /\ response'.kind = "submit"
       /\ Len(profile_snapshots') = Len(profile_snapshots) + 1
       /\ SubSeq(profile_snapshots', 1, Len(profile_snapshots)) = profile_snapshots
       /\ profile_snapshots'[Len(profile_snapshots')] = response'.profile_snapshot
       /\ response'.profile_snapshot.participant_id = response'.participant_id
       /\ \A i \in 1..Len(participants) :
              participants[i].id # response'.participant_id =>
                  \E j \in 1..Len(participants') : participants'[j] = participants[i]
    \/ /\ response'.kind = "participants"
       /\ UNCHANGED <<participants, profile_snapshots>>
       /\ response'.count = Len(participants)
       /\ response'.profile_snapshots_count = Len(profile_snapshots)
    \/ /\ response'.kind = "reset"
       /\ participants' = << >>
       /\ profile_snapshots' = << >>

\* C12: in every state reachable by submits, listings and resets,
\* participants holds at most one entry per participant_id, whose answers and
\* profile are those of the latest submit of that participant since the last
\* reset; profile_snapshots grows by exactly one entry per submit, in the
\* order of the submits, the earlier entries unchanged, so that it counts the
\* submits since the last reset and is at least as long as participants; a
\* reset leaves both stores empty.
C12_Stores == [] StoresAgree /\ [][StoresStep]_vars

\* a participant has submitted twice with different answers, another once
C12_Witness ==
    /\ Len(profile_snapshots) = 3
    /\ Len(participants) = 2
    /\ \E k \in 1..2 :
          /\ profile_snapshots[k].participant_id = profile_snapshots[3].participant_id
          /\ profile_snapshots[k].answers # profile_snapshots[3].answers
    /\ \E i \in 1..2 :
          /\ participants[i].id = profile_snapshots[3].participant_id
          /\ participants[i].answers = profile_snapshots[3].answers
    /\ response.kind = "submit"

\* a reset of stores that held entries
C12_ResetReached ==
    /\ response.kind = "reset"
    /\ participants = << >>
    /\ profile_snapshots = << >>

===========================================================================
